---- MODULE Spec2Model ----
(***************************************************************************)
(* Model of src/uploader/imageTagProcessor.ts: ImageTagProcessor.process   *)
(* and its helpers.  A text is a sequence of tokens; every token is one    *)
(* character of the document except the few multi-character tokens that    *)
(* the regular expressions and string tests of the source can only consume *)
(* as a whole (".png", ".excalidraw", "http://", "https://", "%20").       *)
(***************************************************************************)
EXTENDS Integers, Sequences, FiniteSets, TLC

NL == "\n"

\* the extension alternatives of MD_REGEX / WIKI_REGEX that the documents use
ExtTokens == {".png", ".excalidraw"}

----------------------------------------------------------------------------
(* String helpers (JavaScript String methods on token sequences).          *)

Range(s) == {s[i] : i \in 1..Len(s)}

Slice(s, i, j) == IF j < i THEN <<>> ELSE SubSeq(s, i, j)

\* no line terminator in s[i..j]: the span is matched by a run of regex "."
NoNL(s, i, j) == \A k \in i..j : s[k] # NL

OccursAt(s, p, i) ==
  /\ i >= 1
  /\ i + Len(p) - 1 <= Len(s)
  /\ \A k \in 1..Len(p) : s[i + k - 1] = p[k]

Contains(s, p) == \E i \in 1..(Len(s) + 1) : OccursAt(s, p, i)

StartsWith(s, p) == OccursAt(s, p, 1)

RECURSIVE ReplaceAllFrom(_, _, _, _)
ReplaceAllFrom(s, p, r, i) ==
  IF i > Len(s) THEN <<>>
  ELSE IF OccursAt(s, p, i)
       THEN r \o ReplaceAllFrom(s, p, r, i + Len(p))
       ELSE <<s[i]>> \o ReplaceAllFrom(s, p, r, i + 1)

\* a replacement keyed on the file name inside the pattern, not on the
\* whole pattern
ReplaceAllByName(s, p, r) ==
  LET exts == {j \in 2..Len(p) : p[j] \in {".png", ".excalidraw"}}
  IN  IF exts = {} THEN ReplaceAllFrom(s, p, r, 1)
      ELSE LET j == CHOOSE x \in exts : \A y \in exts : x <= y
           IN  ReplaceAllFrom(s, <<p[j - 1], p[j]>>, r, 1)

\* String.prototype.replaceAll(pattern: string, replacement: string) for a
\* non-empty pattern: leftmost non-overlapping occurrences, left to right
ReplaceAll(s, p, r) == ReplaceAllFrom(s, p, r, 1)

Min(S) == CHOOSE x \in S : \A y \in S : x <= y
Max(S) == CHOOSE x \in S : \A y \in S : x >= y

----------------------------------------------------------------------------
\* WIKI_REGEX: "![[" , group 1 = lazy any-run then an extension, an optional
\* group 3 = (empty | greedy any-run), "]]"; global flag

\* ends of a match whose group 1 ends at token j (the extension):
\* the optional group 3 first tries a non-empty greedy any-run (an empty
\* iteration of an optional group is rejected), then zero iterations
WikiEndsFor(s, j) ==
  LET greedy == {k \in (j + 1)..(Len(s) - 2) :
                   /\ NoNL(s, j + 1, k)
                   /\ s[k + 1] = "]" /\ s[k + 2] = "]"}
  IN  IF greedy # {} THEN {Max(greedy) + 2}
      ELSE IF j + 2 <= Len(s) /\ s[j + 1] = "]" /\ s[j + 2] = "]"
           THEN {j + 2}
           ELSE {}

\* group-1 ends j for a match starting at i, the lazy run tries the least first
WikiNameEnds(s, i) ==
  {j \in (i + 3)..Len(s) :
     /\ s[j] \in ExtTokens
     /\ NoNL(s, i + 3, j - 1)
     /\ WikiEndsFor(s, j) # {}}

WikiMatchesAt(s, i) ==
  /\ i + 2 <= Len(s)
  /\ s[i] = "!" /\ s[i + 1] = "[" /\ s[i + 2] = "["
  /\ WikiNameEnds(s, i) # {}

\* the match at i: [from, to, g1] with g1 = capture group 1
WikiMatchAt(s, i) ==
  LET j == Min(WikiNameEnds(s, i))
      e == CHOOSE x \in WikiEndsFor(s, j) : TRUE
  IN  [from |-> i, to |-> e, g1 |-> Slice(s, i + 3, j), g2 |-> <<>>]

RECURSIVE WikiMatchAll(_, _)
\* value.matchAll(WIKI_REGEX) scanning from position i
WikiMatchAll(s, i) ==
  IF i > Len(s) THEN <<>>
  ELSE IF WikiMatchesAt(s, i)
       THEN LET m == WikiMatchAt(s, i)
            IN  <<m>> \o WikiMatchAll(s, m.to + 1)
       ELSE WikiMatchAll(s, i + 1)

----------------------------------------------------------------------------
\* MD_REGEX: "![" , group 1 = greedy any-run, "](" , group 2 = lazy any-run
\* then an extension, ")"; global flag

\* ends j of group 2 when group 1 (the alt text, greedy) ends at a - 1, so
\* that "](" is at a, a + 1
MdPathEnds(s, a) ==
  {j \in (a + 2)..(Len(s) - 1) :
     /\ s[j] \in ExtTokens
     /\ NoNL(s, a + 2, j - 1)
     /\ s[j + 1] = ")"}

\* positions a of "](" that complete a match starting at i
MdAltEnds(s, i) ==
  {a \in (i + 2)..(Len(s) - 1) :
     /\ NoNL(s, i + 2, a - 1)
     /\ s[a] = "]" /\ s[a + 1] = "("
     /\ MdPathEnds(s, a) # {}}

MdMatchesAt(s, i) ==
  /\ i + 1 <= Len(s)
  /\ s[i] = "!" /\ s[i + 1] = "["
  /\ MdAltEnds(s, i) # {}

\* the greedy group 1 takes the greatest a, the lazy group 2 the least j
MdMatchAt(s, i) ==
  LET a == Max(MdAltEnds(s, i))
      j == Min(MdPathEnds(s, a))
  IN  [from |-> i, to |-> j + 1, g1 |-> Slice(s, i + 2, a - 1),
       g2 |-> Slice(s, a + 2, j)]

RECURSIVE MdMatchAll(_, _)
\* value.matchAll(MD_REGEX) scanning from position i
MdMatchAll(s, i) ==
  IF i > Len(s) THEN <<>>
  ELSE IF MdMatchesAt(s, i)
       THEN LET m == MdMatchAt(s, i)
            IN  <<m>> \o MdMatchAll(s, m.to + 1)
       ELSE MdMatchAll(s, i + 1)

----------------------------------------------------------------------------
\* PROPERTIES_REGEX: anchored at the start of the text (no m flag), "---",
\* a lazy run of one or more characters of any kind, "---" and a newline

\* positions e of the closing "---\n"; at least one character lies between
PropertiesEnds(s) ==
  {e \in 5..(Len(s) - 3) :
     /\ s[e] = "-" /\ s[e + 1] = "-" /\ s[e + 2] = "-"
     /\ s[e + 3] = NL}

PropertiesMatches(s) ==
  /\ Len(s) >= 3
  /\ s[1] = "-" /\ s[2] = "-" /\ s[3] = "-"
  /\ PropertiesEnds(s) # {}

\* value.replace(PROPERTIES_REGEX, ""): the first (only) match is removed
ReplaceProperties(s) ==
  IF PropertiesMatches(s)
  THEN Slice(s, Min(PropertiesEnds(s)) + 4, Len(s))
  ELSE s

----------------------------------------------------------------------------
\* Path helpers

\* decodeURI on the escape the documents use
DecodeURI(s) == [k \in 1..Len(s) |-> IF s[k] = "%20" THEN " " ELSE s[k]]

\* obsidian normalizePath: repeated separators collapse, leading and
\* trailing separators are dropped
RECURSIVE CollapseSlashes(_)
CollapseSlashes(s) ==
  IF Len(s) <= 1 THEN s
  ELSE IF s[1] = "/" /\ s[2] = "/" THEN CollapseSlashes(Tail(s))
       ELSE <<s[1]>> \o CollapseSlashes(Tail(s))

NormalizePath(p) ==
  LET c == CollapseSlashes(p)
      a == IF Len(c) > 0 /\ c[1] = "/" THEN Tail(c) ELSE c
  IN  IF Len(a) > 0 /\ a[Len(a)] = "/" THEN Slice(a, 1, Len(a) - 1) ELSE a

\* path.parse(name).name: the part after the last separator, without its
\* extension; a base that is only ".ext" has no extension
ParseName(name) ==
  LET seps == {k \in 1..Len(name) : name[k] = "/"}
      base == IF seps = {} THEN name ELSE Slice(name, Max(seps) + 1, Len(name))
  IN  IF Len(base) >= 2 /\ base[Len(base)] \in ExtTokens
      THEN Slice(base, 1, Len(base) - 1)
      ELSE base

\* the alt text of lines 96-101
AltText(imageAltText, name) ==
  IF imageAltText
  THEN LET n == ParseName(name)
       IN  [k \in 1..Len(n) |-> IF n[k] \in {"-", "_"} THEN " " ELSE n[k]]
  ELSE <<>>

\* the replacement string of line 103
Canonical(alt, url) == <<"!", "[">> \o alt \o <<"]", "(">> \o url \o <<")">>

----------------------------------------------------------------------------
\* getImageLists

AttachmentLocation == <<"assets">>

\* a candidate path in which ".png" replaces the extension
WikiImageReplacesExt(m, s) ==
  LET name == m.g1
      path_name == IF name[Len(name)] = ".excalidraw"
                   THEN Slice(name, 1, Len(name) - 1) \o <<".png">> ELSE name
  IN  [name |-> name,
       path |-> AttachmentLocation \o <<"/">> \o path_name,
       source |-> Slice(s, m.from, m.to),
       url |-> <<>>,
       fullPath |-> <<>>]

WikiImage(m, s) ==
  LET name == m.g1
      path_name == IF name[Len(name)] = ".excalidraw"
                   THEN name \o <<".png">> ELSE name
  IN  [name |-> name,
       path |-> AttachmentLocation \o <<"/">> \o path_name,
       source |-> Slice(s, m.from, m.to),
       url |-> <<>>,
       fullPath |-> <<>>]

\* a remote test that lets every match through
MdIsRemoteNever(m) == FALSE

MdIsRemote(m) ==
  StartsWith(m.g2, <<"http://">>) \/ StartsWith(m.g2, <<"https://">>)

MdImage(m, s) ==
  LET decodedPath == DecodeURI(m.g2)
  IN  [name |-> decodedPath,
       path |-> decodedPath,
       source |-> Slice(s, m.from, m.to),
       url |-> <<>>,
       fullPath |-> <<>>]

\* the inline images before the wiki images
GetImageListsMdFirst(value) ==
  LET wikiMatches == WikiMatchAll(value, 1)
      mdMatches == SelectSeq(MdMatchAll(value, 1), LAMBDA m : ~MdIsRemote(m))
  IN  [k \in 1..Len(mdMatches) |-> MdImage(mdMatches[k], value)]
      \o [k \in 1..Len(wikiMatches) |-> WikiImage(wikiMatches[k], value)]

GetImageLists(value) ==
  LET wikiMatches == WikiMatchAll(value, 1)
      mdMatches == SelectSeq(MdMatchAll(value, 1), LAMBDA m : ~MdIsRemote(m))
  IN  [k \in 1..Len(wikiMatches) |-> WikiImage(wikiMatches[k], value)]
      \o [k \in 1..Len(mdMatches) |-> MdImage(mdMatches[k], value)]

----------------------------------------------------------------------------
\* Host (obsidian) collaborators of the resolution loop

\* the folder in which the host keeps attachments
HostAttachDir == <<"assets">>

Basename(p) ==
  LET seps == {k \in 1..Len(p) : p[k] = "/"}
  IN  IF seps = {} THEN p ELSE Slice(p, Max(seps) + 1, Len(p))

\* path.dirname
Dirname(p) ==
  LET seps == {k \in 1..Len(p) : p[k] = "/"}
  IN  IF seps = {} THEN <<".">> ELSE Slice(p, 1, Max(seps) - 1)

\* fileManager.getAvailablePathForAttachment: a path in the host's folder
GetAvailablePathForAttachment(p) == HostAttachDir \o <<"/">> \o Basename(p)

\* line 55
FullPath(image) ==
  Dirname(GetAvailablePathForAttachment(NormalizePath(image.path)))
    \o <<"/">> \o image.name

----------------------------------------------------------------------------
\* Inputs

ACTION_PUBLISH == "PUBLISH"
Actions == {ACTION_PUBLISH, "OTHER"}

\* bounds
MaxBlocks == 2
MaxImages == 3
MaxMissing == 1

WikiBlock == <<"!", "[", "[", "a", ".png", "]", "]", NL>>
ExcalidrawBlock == <<"!", "[", "[", "b", ".excalidraw", "|", "1", "]", "]">>
MdBlock == <<"!", "[", "x", "]", "(", "c", "%20", "-", "d", ".png", ")", NL>>
RemoteBlock == <<"!", "[", "x", "]", "(", "http://", "h", ".png", ")", NL>>
NestedBlock == <<"!", "[", "!", "[", "[", "a", ".png", "]", "]", "]", "(",
                 "b", ".png", ")", NL>>
HeaderBlock == <<"-", "-", "-", NL, "t", NL, "-", "-", "-", NL>>

Blocks == {WikiBlock, ExcalidrawBlock, MdBlock, RemoteBlock, NestedBlock,
           HeaderBlock}

RECURSIVE Concat(_)
Concat(bs) == IF bs = <<>> THEN <<>> ELSE Head(bs) \o Concat(Tail(bs))

\* documents of at most MaxBlocks blocks and MaxImages images
Docs ==
  {d \in {Concat(bs) : bs \in UNION {[1..n -> Blocks] : n \in 0..MaxBlocks}} :
     Len(GetImageLists(d)) <= MaxImages}

\* the attachments a document refers to
DocPaths(d) ==
  LET imgs == GetImageLists(d) IN {FullPath(imgs[k]) : k \in 1..Len(imgs)}

\* vaults in which at most MaxMissing of them are absent
Vaults(d) ==
  {DocPaths(d) \ M : M \in {X \in SUBSET DocPaths(d) : Cardinality(X) <= MaxMissing}}

\* URLs the upload service returns for an image: the store keeps the file
\* name
Urls(image) == {<<"https://", "cdn", "/">> \o Basename(image.name)}

Settings == [imageAltText : BOOLEAN, deleteAttachments : BOOLEAN,
             replaceOriginalDoc : BOOLEAN, ignoreProperties : BOOLEAN]

----------------------------------------------------------------------------
VARIABLES
  hasEditor,     \* workspace.getActiveViewOfType(MarkdownView) is not null
  editorText,    \* the text of the active editor
  settings,      \* PublishSettings
  action,        \* the argument of process
  files,         \* paths of the files in the vault
  pc,            \* position of process
  value,         \* local variable value
  images,        \* local variable images (objects mutated in place)
  i,             \* index of the resolution loop in images
  promises,      \* local variable promises, as indices into images
  upload,        \* state of the promise returned by uploader.upload
  wrapped,       \* state of the promise pushed onto promises
  results,       \* the argument of the then-callback, as indices into images
  ri,            \* index of the rewriter loop in results
  result,        \* state of the promise returned by process
  notices,       \* Notice objects created
  clipboard,     \* texts handed to navigator.clipboard.writeText
  reads,         \* calls of getValue
  docWrites,     \* texts handed to editor.setValue
  uploadCalls,   \* paths handed to uploader.upload, in call order
  settleOrder,   \* indices of the uploads in the order they settled
  substOrder,    \* indices of the images in the order they were substituted
  deleteCalls,   \* calls of vault.delete
  rewritten      \* value when the rewriter loop was left

vars == <<hasEditor, editorText, settings, action, files, pc, value, images,
          i, promises, upload, wrapped, results, ri, result, notices,
          clipboard, reads, docWrites, uploadCalls, settleOrder, substOrder,
          deleteCalls, rewritten>>

inputs == <<hasEditor, settings, action>>
history == <<uploadCalls, settleOrder, substOrder, deleteCalls>>

Init ==
  /\ hasEditor \in BOOLEAN
  /\ editorText \in (IF hasEditor THEN Docs ELSE {<<>>})
  /\ files \in Vaults(editorText)
  /\ settings \in Settings
  /\ action \in Actions
  /\ pc = "start"
  /\ value = <<>>
  /\ images = <<>>
  /\ i = 1
  /\ promises = <<>>
  /\ upload = <<>>
  /\ wrapped = <<>>
  /\ results = <<>>
  /\ ri = 1
  /\ result = "pending"
  /\ notices = {}
  /\ clipboard = <<>>
  /\ reads = 0
  /\ docWrites = <<>>
  /\ uploadCalls = <<>>
  /\ settleOrder = <<>>
  /\ substOrder = <<>>
  /\ deleteCalls = <<>>
  /\ rewritten = <<>>

\* getValue, lines 163-170
GetValue == IF hasEditor THEN editorText ELSE <<>>

\* an entry that rejects an unknown action before anything is read
StartChecksAction ==
  /\ pc = "start"
  /\ IF action # ACTION_PUBLISH
     THEN /\ pc' = "done"
          /\ result' = "rejected"
          /\ UNCHANGED <<value, reads, images, upload, wrapped>>
     ELSE /\ value' = GetValue
          /\ reads' = reads + 1
          /\ images' = GetImageLists(GetValue)
          /\ upload' = [k \in 1..Len(images') |-> "none"]
          /\ wrapped' = [k \in 1..Len(images') |-> "none"]
          /\ pc' = IF Len(images') >= 1 THEN "resolve" ELSE "join"
          /\ UNCHANGED result
  /\ UNCHANGED <<inputs, editorText, files, i, promises, results, ri,
                 notices, clipboard, docWrites, history, rewritten>>

\* lines 46-50
Start ==
  /\ pc = "start"
  /\ value' = GetValue
  /\ reads' = reads + 1
  /\ images' = GetImageLists(GetValue)
  /\ upload' = [k \in 1..Len(images') |-> "none"]
  /\ wrapped' = [k \in 1..Len(images') |-> "none"]
  /\ pc' = IF Len(images') >= 1 THEN "resolve" ELSE "join"
  /\ UNCHANGED <<inputs, editorText, files, i, promises, results, ri, result,
                 notices, clipboard, docWrites, history, rewritten>>

\* vault.getAbstractFileByPath(p) is not null
Exists(p) == p \in files

\* a resolution that does not test whether the file exists
ResolveUnchecked ==
  /\ pc = "resolve"
  /\ images' = [images EXCEPT ![i].fullPath = FullPath(images[i])]
  /\ pc' = "read"
  /\ UNCHANGED <<inputs, editorText, files, value, i, promises, upload,
                 wrapped, results, ri, result, notices, clipboard, reads,
                 docWrites, history, rewritten>>

\* lines 52-67: resolve images[i]; a missing file leaves the loop
Resolve ==
  /\ pc = "resolve"
  /\ LET fullPath == FullPath(images[i]) IN
       /\ images' = [images EXCEPT ![i].fullPath = fullPath]
       /\ IF Exists(NormalizePath(fullPath))
          THEN /\ pc' = "read"
               /\ UNCHANGED notices
          ELSE /\ notices' = notices \cup {[kind |-> "notfound", ref |-> i]}
               /\ pc' = "join"
  /\ UNCHANGED <<inputs, editorText, files, value, i, promises, upload,
                 wrapped, results, ri, result, clipboard, reads, docWrites,
                 history, rewritten>>

\* lines 68-89: read the bytes, start the upload, push its promise
ReadAndSubmit ==
  /\ pc = "read"
  /\ upload' = [upload EXCEPT ![i] = "pending"]
  /\ wrapped' = [wrapped EXCEPT ![i] = "pending"]
  /\ promises' = Append(promises, i)
  /\ uploadCalls' = Append(uploadCalls, images[i].fullPath)
  /\ i' = i + 1
  /\ pc' = IF i + 1 <= Len(images) THEN "resolve" ELSE "join"
  /\ UNCHANGED <<inputs, editorText, files, value, images, results, ri,
                 result, notices, clipboard, reads, docWrites, settleOrder,
                 substOrder, deleteCalls, rewritten>>

\* lines 76-79: the upload of images[k] is fulfilled with url
UploadFulfilled(k) ==
  /\ k \in 1..Len(upload)
  /\ upload[k] = "pending"
  /\ \E url \in Urls(images[k]) :
       images' = [images EXCEPT ![k].url = url]
  /\ upload' = [upload EXCEPT ![k] = "fulfilled"]
  /\ wrapped' = [wrapped EXCEPT ![k] = "resolved"]
  /\ settleOrder' = Append(settleOrder, k)
  /\ UNCHANGED <<inputs, editorText, files, pc, value, i, promises, results,
                 ri, result, notices, clipboard, reads, docWrites,
                 uploadCalls, substOrder, deleteCalls, rewritten>>

\* a catch handler that also resolves the pushed promise
UploadRejectedResolves(k) ==
  /\ k \in 1..Len(upload)
  /\ upload[k] = "pending"
  /\ upload' = [upload EXCEPT ![k] = "rejected"]
  /\ wrapped' = [wrapped EXCEPT ![k] = "resolved"]
  /\ notices' = notices \cup {[kind |-> "uploadfailed", ref |-> k]}
  /\ settleOrder' = Append(settleOrder, k)
  /\ UNCHANGED <<inputs, editorText, files, pc, value, images, i, promises,
                 results, ri, result, clipboard, reads, docWrites,
                 uploadCalls, substOrder, deleteCalls, rewritten>>

\* a catch handler that starts the upload again
UploadRejectedRetries(k) ==
  /\ k \in 1..Len(upload)
  /\ upload[k] = "pending"
  /\ notices' = notices \cup {[kind |-> "uploadfailed", ref |-> k]}
  /\ IF Len(uploadCalls) < Len(images) + 1
     THEN /\ uploadCalls' = Append(uploadCalls, images[k].fullPath)
          /\ UNCHANGED <<upload, settleOrder>>
     ELSE /\ upload' = [upload EXCEPT ![k] = "rejected"]
          /\ settleOrder' = Append(settleOrder, k)
          /\ UNCHANGED uploadCalls
  /\ UNCHANGED <<inputs, editorText, files, pc, value, images, i, promises,
                 wrapped, results, ri, result, clipboard, reads, docWrites,
                 substOrder, deleteCalls, rewritten>>

\* lines 80-86: the upload of images[k] is rejected; the catch handler
\* creates a Notice and never calls resolve
UploadRejected(k) ==
  /\ k \in 1..Len(upload)
  /\ upload[k] = "pending"
  /\ upload' = [upload EXCEPT ![k] = "rejected"]
  /\ notices' = notices \cup {[kind |-> "uploadfailed", ref |-> k]}
  /\ settleOrder' = Append(settleOrder, k)
  /\ UNCHANGED <<inputs, editorText, files, pc, value, images, i, promises,
                 wrapped, results, ri, result, clipboard, reads, docWrites,
                 uploadCalls, substOrder, deleteCalls, rewritten>>

\* Promise.any in the place of Promise.all
PromiseAnyFulfilled(ps, w) ==
  ps = <<>> \/ \E n \in 1..Len(ps) : w[ps[n]] = "resolved"

\* Promise.all(promises) is fulfilled: every promise of the list is resolved
PromiseAllFulfilled(ps, w) == \A n \in 1..Len(ps) : w[ps[n]] = "resolved"

\* the results in the order in which the promises settled
PromiseAllValueBySettlement(ps, settled) == settled

\* the value Promise.all is fulfilled with: the results in the order of the
\* list, whatever the order of settlement
PromiseAllValue(ps, settled) == ps

\* after the rewriter loop
AfterLoop == "write"

\* lines 91-93: the then-callback is entered
Join ==
  /\ pc = "join"
  /\ PromiseAllFulfilled(promises, wrapped)
  /\ results' = PromiseAllValue(promises, settleOrder)
  /\ ri' = 1
  /\ pc' = IF Len(results') >= 1 THEN "rewrite" ELSE AfterLoop
  /\ rewritten' = IF Len(results') >= 1 THEN rewritten ELSE value
  /\ UNCHANGED <<inputs, editorText, files, value, images, i, promises,
                 upload, wrapped, result, notices, clipboard, reads,
                 docWrites, history>>

\* a rewriter step that deletes without testing deleteAttachments
RewriteAlwaysDeletes ==
  /\ pc = "rewrite"
  /\ LET image == images[results[ri]]
         altText == AltText(settings.imageAltText, image.name)
     IN  /\ value' = ReplaceAll(value, image.source,
                                Canonical(altText, image.url))
         /\ substOrder' = Append(substOrder, results[ri])
         /\ pc' = "delete"
  /\ UNCHANGED <<inputs, editorText, files, images, i, promises, upload,
                 wrapped, results, ri, result, notices, clipboard, reads,
                 docWrites, uploadCalls, settleOrder, deleteCalls, rewritten>>

\* lines 95-104: substitute results[ri]
Rewrite ==
  /\ pc = "rewrite"
  /\ LET image == images[results[ri]]
         altText == AltText(settings.imageAltText, image.name)
         last == ri + 1 > Len(results)
     IN  /\ value' = ReplaceAll(value, image.source,
                                Canonical(altText, image.url))
         /\ substOrder' = Append(substOrder, results[ri])
         /\ IF settings.deleteAttachments
            THEN /\ pc' = "delete"
                 /\ UNCHANGED <<ri, rewritten>>
            ELSE /\ ri' = ri + 1
                 /\ pc' = IF last THEN AfterLoop ELSE "rewrite"
                 /\ rewritten' = IF last THEN value' ELSE rewritten
  /\ UNCHANGED <<inputs, editorText, files, images, i, promises, upload,
                 wrapped, results, result, notices, clipboard, reads,
                 docWrites, uploadCalls, settleOrder, deleteCalls>>

\* lines 105-107: vault.delete(vault.getAbstractFileByPath(fullPath)); for a
\* path that has no file the host is handed null and either fails the call,
\* which rejects the promise of process, or ignores it
Delete ==
  /\ pc = "delete"
  /\ LET p == images[results[ri]].fullPath
         last == ri + 1 > Len(results)
     IN  /\ deleteCalls' = Append(deleteCalls, [path |-> p, found |-> Exists(p)])
         /\ files' = files \ {p}
         /\ \/ /\ ri' = ri + 1
               /\ pc' = IF last THEN AfterLoop ELSE "rewrite"
               /\ rewritten' = IF last THEN value ELSE rewritten
               /\ UNCHANGED result
            \/ /\ ~Exists(p)
               /\ pc' = "thrown"
               /\ result' = "rejected"
               /\ UNCHANGED <<ri, rewritten>>
  /\ UNCHANGED <<inputs, editorText, value, images, i, promises, upload,
                 wrapped, results, notices, clipboard, reads, docWrites,
                 uploadCalls, settleOrder, substOrder>>

\* a write-back placed after the stripping of the properties
WriteBackStripped ==
  /\ pc = "write"
  /\ IF settings.replaceOriginalDoc /\ hasEditor
     THEN /\ editorText' = (IF settings.ignoreProperties
                            THEN ReplaceProperties(value) ELSE value)
          /\ docWrites' = Append(docWrites, editorText')
     ELSE UNCHANGED <<editorText, docWrites>>
  /\ pc' = "dispatch"
  /\ UNCHANGED <<inputs, files, value, images, i, promises, upload, wrapped,
                 results, ri, result, notices, clipboard, reads, history,
                 rewritten>>

\* a write-back that does not test replaceOriginalDoc
WriteBackAlways ==
  /\ pc = "write"
  /\ IF hasEditor
     THEN /\ editorText' = value
          /\ docWrites' = Append(docWrites, value)
     ELSE UNCHANGED <<editorText, docWrites>>
  /\ pc' = "dispatch"
  /\ UNCHANGED <<inputs, files, value, images, i, promises, upload, wrapped,
                 results, ri, result, notices, clipboard, reads, history,
                 rewritten>>

\* lines 110-112: getEditor()?.setValue(value)
WriteBack ==
  /\ pc = "write"
  /\ IF settings.replaceOriginalDoc /\ hasEditor
     THEN /\ editorText' = value
          /\ docWrites' = Append(docWrites, value)
     ELSE UNCHANGED <<editorText, docWrites>>
  /\ pc' = "dispatch"
  /\ UNCHANGED <<inputs, files, value, images, i, promises, upload, wrapped,
                 results, ri, result, notices, clipboard, reads, history,
                 rewritten>>

\* a dispatch that strips the properties without testing ignoreProperties
DispatchAlwaysStrips ==
  /\ pc = "dispatch"
  /\ value' = ReplaceProperties(value)
  /\ IF action = ACTION_PUBLISH
     THEN /\ clipboard' = Append(clipboard, value')
          /\ notices' = notices \cup {[kind |-> "copied", ref |-> 0]}
          /\ result' = "fulfilled"
     ELSE /\ result' = "rejected"
          /\ UNCHANGED <<clipboard, notices>>
  /\ pc' = "done"
  /\ UNCHANGED <<inputs, editorText, files, images, i, promises, upload,
                 wrapped, results, ri, reads, docWrites, history, rewritten>>

\* lines 113-124: strip the properties, then switch on the action
Dispatch ==
  /\ pc = "dispatch"
  /\ value' = IF settings.ignoreProperties THEN ReplaceProperties(value)
              ELSE value
  /\ IF action = ACTION_PUBLISH
     THEN /\ clipboard' = Append(clipboard, value')
          /\ notices' = notices \cup {[kind |-> "copied", ref |-> 0]}
          /\ result' = "fulfilled"
     ELSE /\ result' = "rejected"
          /\ UNCHANGED <<clipboard, notices>>
  /\ pc' = "done"
  /\ UNCHANGED <<inputs, editorText, files, images, i, promises, upload,
                 wrapped, results, ri, reads, docWrites, history, rewritten>>

Next ==
  \/ Start
  \/ Resolve
  \/ ReadAndSubmit
  \/ Join
  \/ Rewrite
  \/ Delete
  \/ WriteBack
  \/ Dispatch
  \/ \E k \in 1..MaxImages : UploadFulfilled(k)
  \/ \E k \in 1..MaxImages : UploadRejected(k)

Spec == Init /\ [][Next]_vars

----------------------------------------------------------------------------
\* Properties

Started(k) == k \in 1..Len(upload) /\ upload[k] # "none"
Settled(k) == k \in 1..Len(upload) /\ upload[k] \in {"fulfilled", "rejected"}
Failed(k) == k \in 1..Len(upload) /\ upload[k] = "rejected"
Succeeded(k) == k \in 1..Len(upload) /\ upload[k] = "fulfilled"
SomeUploadFailed == \E k \in 1..Len(upload) : Failed(k)
AllStartedSettled == \A k \in 1..Len(upload) : Started(k) => Settled(k)

\* the switch on the action was executed
Dispatched == pc = "done"

\* process waits for Promise.all, which is not fulfilled
Waiting == pc = "join" /\ ~PromiseAllFulfilled(promises, wrapped)

\* the run has ended: no upload is pending and process takes no further step
Final == AllStartedSettled /\ (pc \in {"done", "thrown"} \/ Waiting)

\* C1: partial upload failure does not stop the batch: a run in which an
\* upload failed and every started upload has settled does not end before
\* the rewriter loop was left and the action was dispatched
C1_PartialFailureContinues == (Final /\ SomeUploadFailed) => Dispatched

\* C2: a reference whose upload failed is never substituted, its attachment
\* is never handed to vault.delete, and a warning for it was shown
C2_FailedReferenceUntouched ==
  \A k \in 1..Len(upload) :
    Failed(k) =>
      /\ k \notin Range(substOrder)
      /\ \A n \in 1..Len(deleteCalls) : deleteCalls[n].path # images[k].fullPath
      /\ images[k].fullPath \in files
      /\ [kind |-> "uploadfailed", ref |-> k] \in notices

\* C2 witness: the run has ended with deletion enabled, one upload failed and
\* a sibling succeeded
C2_Witness ==
  /\ Final
  /\ settings.deleteAttachments
  /\ \E k, j \in 1..Len(upload) : Failed(k) /\ Succeeded(j)

\* a text substitution, deletion, document write or clipboard write happened
EffectsBegun ==
  \/ substOrder # <<>>
  \/ deleteCalls # <<>>
  \/ docWrites # <<>>
  \/ clipboard # <<>>
  \/ value # GetValue /\ pc # "start"

\* a step in which upload k fails leaves every other upload as it was
NoCancel ==
  \A k, j \in 1..Len(upload) :
    (k # j /\ upload[k] = "pending" /\ upload'[k] = "rejected")
      => upload'[j] = upload[j] /\ wrapped'[j] = wrapped[j]

\* C3: join barrier: no effect of the then-callback while a started upload
\* is unsettled, whatever the completion order, and a failing upload does
\* not change the state of another upload
C3_JoinBarrier ==
  /\ [](EffectsBegun => (AllStartedSettled /\ pc \notin {"resolve", "read"}))
  /\ [][NoCancel]_vars

\* C3 witness: all effects happened after uploads that settled out of order
C3_Witness ==
  /\ pc = "done"
  /\ clipboard # <<>> /\ docWrites # <<>> /\ deleteCalls # <<>>
  /\ Len(settleOrder) >= 2
  /\ settleOrder[1] > settleOrder[2]

\* the warning of lines 61-64 was shown for images[k]
NotFoundAt(k) == [kind |-> "notfound", ref |-> k] \in notices

\* images[k] is the first image whose file is not in the vault
FirstMissing(k) ==
  /\ k \in 1..Len(images)
  /\ FullPath(images[k]) \notin files
  /\ \A j \in 1..(k - 1) : FullPath(images[j]) \in files

\* C4: halt on the first missing asset: a warning is shown for reference k,
\* reference k and the later ones are never uploaded, no later one is
\* resolved, and when the run has ended every reference before k whose
\* upload succeeded has been substituted
C4_HaltOnFirstMissing ==
  \A k \in 1..Len(images) :
    /\ (pc = "join" /\ FirstMissing(k)) => NotFoundAt(k)
    /\ NotFoundAt(k) =>
         /\ \A j \in k..Len(images) : upload[j] = "none"
         /\ Len(uploadCalls) = k - 1
         /\ \A j \in (k + 1)..Len(images) : images[j].fullPath = <<>>
         /\ Final =>
              \A j \in 1..(k - 1) : Succeeded(j) => j \in Range(substOrder)

\* C5: the upload service is called at most once for each resolved path
C5_UploadOncePerPath ==
  \A a, b \in 1..Len(uploadCalls) :
    a # b => uploadCalls[a] # uploadCalls[b]

\* the rewriter loop was left after its last image
RewriterFinished == pc \in {"write", "dispatch"} \/ Dispatched

\* C6 (as claimed): the replacements are applied in the order in which the
\* uploads settled
C6_SettleOrderSubstitution == RewriterFinished => substOrder = settleOrder

\* C6 (amended): the replacements are applied in the order in which the
\* uploads were started, which is the match order, whatever the order of
\* settlement
C6_MatchOrderSubstitution ==
  /\ substOrder = SubSeq(promises, 1, Len(substOrder))
  /\ \A n \in 1..Len(promises) : promises[n] = n
  /\ RewriterFinished => substOrder = promises

\* C6 witness: the rewriter has finished after uploads that settled in
\* another order than they were started in
C6_Witness ==
  /\ RewriterFinished
  /\ Len(substOrder) >= 2
  /\ settleOrder # substOrder

\* the text that replaces the raw span of images[k]
CanonicalOf(k) ==
  Canonical(AltText(settings.imageAltText, images[k].name), images[k].url)

\* C7: when the rewriter has finished, the text holds the canonical form of
\* every substituted reference and no occurrence of its raw span
C7_EverySuccessSubstituted ==
  RewriterFinished =>
    \A k \in Range(substOrder) :
      /\ Contains(rewritten, CanonicalOf(k))
      /\ ~Contains(rewritten, images[k].source)

\* the first n tokens of t are a properties block that ends at its first
\* closing delimiter
IsFirstBlock(t, n) ==
  /\ n >= 8 /\ n <= Len(t)
  /\ OccursAt(t, <<"-", "-", "-">>, 1)
  /\ OccursAt(t, <<"-", "-", "-", NL>>, n - 3)
  /\ \A m \in 8..(n - 1) : ~OccursAt(t, <<"-", "-", "-", NL>>, m - 3)

\* out is t without its leading properties block, if it has one
StrippedOnce(t, out) ==
  IF \E n \in 8..Len(t) : IsFirstBlock(t, n)
  THEN \E n \in 8..Len(t) : IsFirstBlock(t, n) /\ out = Slice(t, n + 1, Len(t))
  ELSE out = t

\* C8: the text written back is the substituted text before the stripping,
\* and the text on the clipboard is that text without its leading properties
\* block, removed once, if and only if ignoreProperties is set
C8_HeaderOnlyDivergence ==
  (Dispatched /\ action = ACTION_PUBLISH) =>
    /\ (settings.replaceOriginalDoc /\ hasEditor) =>
         docWrites = <<rewritten>> /\ editorText = rewritten
    /\ clipboard = <<value>>
    /\ IF settings.ignoreProperties
       THEN StrippedOnce(rewritten, value)
       ELSE value = rewritten

\* C8 witness: a document with a properties block and a substituted image
\* was written back with the block and copied without it
C8_Witness ==
  /\ Dispatched /\ action = ACTION_PUBLISH
  /\ settings.replaceOriginalDoc /\ settings.ignoreProperties
  /\ substOrder # <<>>
  /\ docWrites # <<>> /\ docWrites[1] # clipboard[1]

\* C9: getValue is called once, before any resolution or upload; the
\* document is written at most once, after every upload has settled and all
\* substitutions and deletions are done, and only if replaceOriginalDoc is set
C9_SingleReadSingleWrite ==
  /\ reads = (IF pc = "start" THEN 0 ELSE 1)
  /\ pc = "start" => images = <<>> /\ uploadCalls = <<>>
  /\ Len(docWrites) <= 1
  /\ docWrites # <<>> =>
       /\ settings.replaceOriginalDoc
       /\ hasEditor /\ editorText = docWrites[1]
       /\ AllStartedSettled
       /\ pc \in {"dispatch", "done"}
       /\ substOrder = promises
       /\ settings.deleteAttachments => Len(deleteCalls) = Len(promises)
  /\ ~settings.replaceOriginalDoc => docWrites = <<>>

\* C9 witness: the document was written after two substitutions and
\* deletions
C9_Witness ==
  /\ docWrites # <<>>
  /\ Len(substOrder) >= 2
  /\ Len(deleteCalls) >= 2

\* C10: a run with an action other than the publish action never writes the
\* clipboard nor signals success, and when it has ended process has thrown
C10_UnknownActionFatal ==
  action # ACTION_PUBLISH =>
    /\ clipboard = <<>>
    /\ [kind |-> "copied", ref |-> 0] \notin notices
    /\ result # "fulfilled"
    /\ Final => result = "rejected"

\* a step that removes a file from the vault is the delete step of a
\* substituted image whose upload succeeded, with deleteAttachments set
DeletionGated ==
  files' # files =>
    /\ settings.deleteAttachments
    /\ pc = "delete"
    /\ LET k == results[ri] IN
         /\ files \ files' = {images[k].fullPath}
         /\ Succeeded(k)
         /\ Len(substOrder) >= 1 /\ substOrder[Len(substOrder)] = k
         /\ ~Contains(value, images[k].source)

\* C11: a file is deleted only with deleteAttachments set, only for a
\* reference whose upload succeeded and whose substitution is already in
\* the text; with deleteAttachments unset vault.delete is never called
C11_DeletionGatedAndOrdered ==
  /\ [][DeletionGated]_vars
  /\ [](Len(deleteCalls) <= Len(substOrder))
  /\ [](~settings.deleteAttachments => deleteCalls = <<>>)

\* C11 witness: a file was deleted after its reference was substituted
C11_Witness ==
  /\ deleteCalls # <<>>
  /\ deleteCalls[1].found
  /\ deleteCalls[1].path \notin files
  /\ deleteCalls[1].path = images[substOrder[1]].fullPath

\* getImageLists has returned and no image was submitted yet
Extracted == pc \in {"resolve", "join"} /\ i = 1

\* the inline matches of t whose path is remote
RemoteMatches(t) ==
  LET ms == MdMatchAll(t, 1)
  IN  {n \in 1..Len(ms) : ms[n].g2[1] \in {"http://", "https://"}}

\* C12: an inline match whose path starts with http:// or https:// is not
\* among the images, so nothing is resolved, uploaded or deleted for it, and
\* a text whose only matches are such matches leaves the rewriter unchanged
C12_RemoteInlineSkipped ==
  /\ \A k \in 1..Len(images) :
       images[k].path[1] \notin {"http://", "https://"}
  /\ \A n \in 1..Len(uploadCalls) : "http://" \notin Range(uploadCalls[n])
  /\ \A n \in 1..Len(deleteCalls) : "http://" \notin Range(deleteCalls[n].path)
  /\ Extracted =>
       LET wiki == WikiMatchAll(value, 1)
           md == MdMatchAll(value, 1)
           remote == Cardinality(RemoteMatches(value))
       IN  Len(images) = Len(wiki) + Len(md) - remote
  /\ (pc = "write" /\ images = <<>>) =>
       /\ uploadCalls = <<>> /\ deleteCalls = <<>>
       /\ value = editorText

\* C12 witness: a text with a remote inline match only has passed the
\* rewriter
C12_Witness ==
  /\ pc = "write"
  /\ RemoteMatches(editorText) # {}
  /\ images = <<>>
  /\ value = editorText

\* the text holds no "![" at all
NoEmbedding(t) == ~Contains(t, <<"!", "[">>)

\* C13: for a text without embeddings no image is extracted, nothing is
\* resolved, uploaded or deleted, and the rewritten text is the input text,
\* up to the stripping of the properties in the copied text
C13_NoEmbeddingsNoEffects ==
  (NoEmbedding(editorText) /\ pc # "start") =>
    /\ images = <<>> /\ promises = <<>>
    /\ uploadCalls = <<>> /\ deleteCalls = <<>>
    /\ notices \subseteq {[kind |-> "copied", ref |-> 0]}
    /\ pc \in {"join", "write", "dispatch"} => value = editorText
    /\ pc = "done" =>
         /\ rewritten = editorText
         /\ IF settings.ignoreProperties
            THEN StrippedOnce(editorText, value)
            ELSE value = editorText

\* C13 witness: a text with a properties block and no embedding was copied
\* without the block
C13_Witness ==
  /\ pc = "done"
  /\ NoEmbedding(editorText)
  /\ clipboard # <<>>
  /\ clipboard[1] # editorText

RECURSIVE RewriterPass(_, _)
\* the substitutions of the rewriter loop, from results[n] on, applied to t
RewriterPass(t, n) ==
  IF n > Len(results) THEN t
  ELSE RewriterPass(ReplaceAll(t, images[results[n]].source,
                               CanonicalOf(results[n])), n + 1)

\* no raw span of a substituted reference occurs in t
NoRawSpan(t) ==
  \A n \in 1..Len(results) : ~Contains(t, images[results[n]].source)

\* C14: when the rewriter loop has left a text in which no raw span
\* remains, applying its substitutions once more leaves the text unchanged
C14_SubstitutionIdempotent ==
  (pc = "write" /\ NoRawSpan(value)) => RewriterPass(value, 1) = value

\* C14 witness: the rewriter loop has substituted a reference and no raw
\* span remains
C14_Witness ==
  /\ pc = "write"
  /\ substOrder # <<>>
  /\ NoRawSpan(value)
  /\ value # editorText

\* C15: the candidate path of a wiki match is the attachment location, a
\* separator and the name, with ".png" appended after an ".excalidraw"
\* extension; the name and the raw span are those of the match
C15_ExcalidrawCandidatePath ==
  (pc = "resolve" /\ i = 1) =>
    LET wiki == WikiMatchAll(value, 1) IN
      /\ Len(images) >= Len(wiki)
      /\ \A k \in 1..Len(wiki) :
           LET img == images[k]
               last == img.name[Len(img.name)]
           IN  /\ img.source = Slice(value, wiki[k].from, wiki[k].to)
               /\ OccursAt(img.source, <<"!", "[", "[">> \o img.name, 1)
               /\ last \in ExtTokens
               /\ img.path = <<"assets", "/">> \o img.name
                               \o (IF last = ".excalidraw" THEN <<".png">>
                                   ELSE <<>>)

\* C15 witness: an image of an excalidraw embed with its candidate path
C15_Witness ==
  /\ pc = "resolve" /\ i = 1
  /\ \E k \in 1..Len(images) :
       /\ images[k].name = <<"b", ".excalidraw">>
       /\ images[k].path = <<"assets", "/", "b", ".excalidraw", ".png">>
       /\ images[k].source = ExcalidrawBlock

\* images[k] was resolved: its full path was computed
Resolved(k) == images[k].fullPath # <<>>

\* C16: references are resolved one at a time in match order, an upload is
\* started only for a resolved reference whose file was found, nothing
\* waits on an upload result while the loop runs, and when the loop is left
\* the upload of every resolved and found reference has been started
C16_SequentialResolveFanOut ==
  /\ \A k \in 1..Len(images) :
       /\ Resolved(k) => (k <= i /\ \A j \in 1..(k - 1) : Started(j))
       /\ Started(k) => (Resolved(k) /\ k < i /\ ~NotFoundAt(k))
       /\ (Started(k) /\ settleOrder = <<>> /\ results = <<>>) =>
            NormalizePath(images[k].fullPath) \in files
  /\ pc \in {"start", "resolve", "read"} =>
       (results = <<>> /\ ~EffectsBegun /\ result = "pending")
  /\ pc \notin {"start", "resolve", "read"} =>
       \A k \in 1..Len(images) :
         (Resolved(k) /\ ~NotFoundAt(k)) => Started(k)

\* C16 witness: the loop was left and the uploads of all the references,
\* more than one, are in flight together
C16_Witness ==
  /\ pc = "join"
  /\ Len(upload) >= 2
  /\ \A k \in 1..Len(upload) : upload[k] = "pending"

\* a rejected upload stays rejected, and a step that calls the upload
\* service calls it for the reference in hand, which has no upload yet
NoRestart ==
  /\ \A k \in 1..Len(upload) : Failed(k) => upload'[k] = "rejected"
  /\ uploadCalls' # uploadCalls =>
       /\ upload[i] = "none"
       /\ promises' = Append(promises, i)
       /\ uploadCalls' = Append(uploadCalls, images[i].fullPath)

\* C17: the upload service is called at most once for a reference, and
\* never again for a reference whose upload failed
C17_NoRetry ==
  /\ [](/\ Len(uploadCalls) = Len(promises)
        /\ \A m, n \in 1..Len(promises) : m # n => promises[m] # promises[n]
        /\ Len(uploadCalls) = Cardinality({k \in 1..Len(upload) : Started(k)}))
  /\ [][NoRestart]_vars

\* C17 witness: the run has ended waiting, after two upload calls of which
\* one failed
C17_Witness ==
  /\ Waiting /\ AllStartedSettled
  /\ Len(uploadCalls) = 2
  /\ \E k \in 1..Len(upload) : Failed(k)

\* the spans of the matches ms of t, in the order of ms
Spans(t, ms) == [k \in 1..Len(ms) |-> Slice(t, ms[k].from, ms[k].to)]

\* the matches ms are in left-to-right order
LeftToRight(ms) ==
  \A a, b \in 1..Len(ms) : a < b => ms[a].from < ms[b].from

\* C18: the images are the wiki matches left to right, then the local
\* inline matches left to right; when the rewriter loop is left the
\* substitutions were applied in that order, and the text, the deleted
\* files and the clipboard are determined by the document and the URLs,
\* whatever the order in which the uploads settled
C18_InterleavingIndependent ==
  /\ Extracted =>
       LET wiki == WikiMatchAll(value, 1)
           md == SelectSeq(MdMatchAll(value, 1),
                           LAMBDA m : m.g2[1] \notin {"http://", "https://"})
       IN  /\ LeftToRight(wiki) /\ LeftToRight(md)
           /\ [k \in 1..Len(images) |-> images[k].source]
                = Spans(value, wiki) \o Spans(value, md)
  /\ pc = "write" =>
       /\ substOrder = promises
       /\ \A a, b \in 1..Len(promises) : a < b => promises[a] < promises[b]
       /\ value = RewriterPass(editorText, 1)
       /\ rewritten = value
       /\ {deleteCalls[n].path : n \in 1..Len(deleteCalls)}
            = IF settings.deleteAttachments
              THEN {images[promises[n]].fullPath : n \in 1..Len(promises)}
              ELSE {}
  /\ (pc = "done" /\ action = ACTION_PUBLISH) =>
       clipboard = <<IF settings.ignoreProperties
                     THEN ReplaceProperties(rewritten) ELSE rewritten>>

\* C18 witness: a wiki image and an inline image were substituted and
\* deleted, and the upload of the inline image settled first
C18_Witness ==
  /\ pc = "write"
  /\ Len(images) = 2
  /\ images[1].source = Slice(WikiBlock, 1, Len(WikiBlock) - 1)
  /\ images[2].source = Slice(MdBlock, 1, Len(MdBlock) - 1)
  /\ settleOrder = <<2, 1>>
  /\ substOrder = <<1, 2>>
  /\ Len(deleteCalls) = 2

\* C19 (as claimed): vault.delete is called at most once for a path, and
\* never for a path whose file is gone
C19_DeleteAtMostOnce ==
  /\ \A m, n \in 1..Len(deleteCalls) :
       m # n => deleteCalls[m].path # deleteCalls[n].path
  /\ \A n \in 1..Len(deleteCalls) : deleteCalls[n].found

\* C20: an unknown action rejects the promise of process, and only at the
\* dispatch step: by then every upload was made and succeeded, every
\* substitution and every enabled deletion was executed and the document
\* was overwritten when replaceOriginalDoc is set; these effects remain
C20_LateRejection ==
  /\ result = "rejected" => pc \in {"done", "thrown"}
  /\ (action # ACTION_PUBLISH /\ pc = "done") =>
       /\ result = "rejected"
       /\ reads = 1
       /\ clipboard = <<>>
       /\ \A n \in 1..Len(promises) : Succeeded(promises[n])
       /\ Len(uploadCalls) = Len(promises)
       /\ substOrder = promises
       /\ IF settings.deleteAttachments
          THEN /\ Len(deleteCalls) = Len(promises)
               /\ \A n \in 1..Len(deleteCalls) :
                    /\ deleteCalls[n].path = images[promises[n]].fullPath
                    /\ deleteCalls[n].path \notin files
          ELSE deleteCalls = <<>>
       /\ IF settings.replaceOriginalDoc /\ hasEditor
          THEN docWrites = <<rewritten>> /\ editorText = rewritten
          ELSE docWrites = <<>>
       /\ (~settings.replaceOriginalDoc /\ ~settings.deleteAttachments) =>
            LET refs == GetImageLists(editorText) IN
              /\ Len(images) = Len(refs)
              /\ (\A k \in 1..Len(refs) : FullPath(refs[k]) \in files) =>
                   Len(uploadCalls) = Len(refs)

\* C20 witness: a run with an unknown action was rejected after two
\* uploads, two deletions and the overwriting of the document
C20_Witness ==
  /\ pc = "done"
  /\ action # ACTION_PUBLISH
  /\ result = "rejected"
  /\ Len(uploadCalls) = 2
  /\ Len(deleteCalls) = 2
  /\ \A n \in 1..2 : deleteCalls[n].path \notin files
  /\ docWrites # <<>>
  /\ editorText = rewritten
  /\ editorText # <<>>

====
